---------------------------- MODULE Spec2Model ----------------------------
(***************************************************************************)
(* Model of the nullish-short-circuit chaining library:                    *)
(*   helpers.ts    isNullish                                               *)
(*   monad.ts      bind, pipe, monad, monadRun, monadSetup                 *)
(*   monadAsync.ts bindAsync, pipeAsync, monadAsync, monadAsyncRun,        *)
(*                 monadAsyncSetup                                         *)
(* with the lookup functions of example.ts and the callbacks of the test   *)
(* suite as the user functions that are passed to the continuations.       *)
(***************************************************************************)
EXTENDS Integers, Sequences, FiniteSets, TLC

VARIABLES
    steps,          \* the chain steps created so far (root first), see StepOf
    calls,          \* every user function invocation so far: [step, fn, args]
    thrown,         \* exceptions that left a sync continuation call
    checks,         \* the steps whose value isNullish was called on, in order
    argument,       \* SpecNullish: the value handed to isNullish
    nullishTypes,   \* SpecNullish: the marker list handed to isNullish;
                    \* SpecTree: the marker list the monadSetup /
                    \* monadAsyncSetup closure holds
    outcome,        \* SpecNullish: what the call of isNullish produced
    wrapped         \* the calls of the convenience wrappers so far

vars == <<steps, calls, checks, thrown, argument, nullishTypes, outcome, wrapped>>

(***************************************************************************)
(* JavaScript values.  Every value is a record of the same shape, so that  *)
(* any two of them can be compared:                                        *)
(*   t  the type tag, n  the number / bigint / boolean payload,            *)
(*   s  the string payload, e  the entries <<[k, v], ...>> of an array     *)
(*      (k = "") or of an object (k = the property name, in own-property   *)
(*      order).                                                            *)
(* Strings of the model hold no quote and no backslash, so JSON string     *)
(* escaping is the identity on them.                                       *)
(***************************************************************************)
Undefined == [t |-> "undefined", n |-> 0, s |-> "", e |-> <<>>]
Null == [t |-> "null", n |-> 0, s |-> "", e |-> <<>>]
Bool(b) == [t |-> "boolean", n |-> IF b THEN 1 ELSE 0, s |-> "", e |-> <<>>]
Num(i) == [t |-> "number", n |-> i, s |-> "", e |-> <<>>]
BigInt(i) == [t |-> "bigint", n |-> i, s |-> "", e |-> <<>>]
Str(x) == [t |-> "string", n |-> 0, s |-> x, e |-> <<>>]
Err(x) == [t |-> "error", n |-> 0, s |-> x, e |-> <<>>]
Entry(key, val) == [k |-> key, v |-> val]
Arr(elems) == [t |-> "array", n |-> 0, s |-> "",
               e |-> [i \in 1..Len(elems) |-> Entry("", elems[i])]]
Obj(entries) == [t |-> "object", n |-> 0, s |-> "", e |-> entries]
\* A promise object that is held as a value (not awaited, not adopted).
PromiseObject == [t |-> "promise", n |-> 0, s |-> "", e |-> <<>>]

\* Results of a call: a normal return or a thrown exception.
Return(v) == [kind |-> "return", val |-> v]
Throw(v) == [kind |-> "throw", val |-> v]

(***************************************************************************)
(* JSON.stringify, as helpers.ts:7 (src/unnamed/part_002) uses it (one argument, no replacer).    *)
(* It returns a string, or undefined for a value that has no serialized    *)
(* form, or throws a TypeError for a BigInt (also one nested in an array   *)
(* or an object).  Inside an array a value without serialized form is      *)
(* written null; inside an object such a property is left out.             *)
(***************************************************************************)
BigIntError == Err("TypeError: Do not know how to serialize a BigInt")

RECURSIVE JSONStringify(_)
RECURSIVE SerializeElements(_, _)
RECURSIVE SerializeProperties(_, _, _)

\* The elements e[i..] of an array, comma separated.
SerializeElements(e, i) ==
    IF i > Len(e) THEN Return(Str(""))
    ELSE LET head == JSONStringify(e[i].v)
             rest == SerializeElements(e, i + 1)
         IN  IF head.kind = "throw" THEN head
             ELSE IF rest.kind = "throw" THEN rest
             ELSE Return(Str((IF head.val.t = "undefined" THEN "null"
                              ELSE head.val.s)
                             \o (IF i < Len(e) THEN "," ELSE "")
                             \o rest.val.s))

\* The properties e[i..] of an object; started says whether one was written.
SerializeProperties(e, i, started) ==
    IF i > Len(e) THEN Return(Str(""))
    ELSE LET head == JSONStringify(e[i].v)
         IN  IF head.kind = "throw" THEN head
             ELSE IF head.val.t = "undefined"
                  THEN SerializeProperties(e, i + 1, started)
             ELSE LET rest == SerializeProperties(e, i + 1, TRUE)
                  IN  IF rest.kind = "throw" THEN rest
                      ELSE Return(Str((IF started THEN "," ELSE "")
                                      \o "\"" \o e[i].k \o "\":" \o head.val.s
                                      \o rest.val.s))

JSONStringify(v) ==
    CASE v.t = "undefined" -> Return(Undefined)
      [] v.t = "null" -> Return(Str("null"))
      [] v.t = "boolean" -> Return(Str(IF v.n = 1 THEN "true" ELSE "false"))
      [] v.t = "number" -> Return(Str(ToString(v.n)))
      [] v.t = "bigint" -> Throw(BigIntError)
      [] v.t = "string" -> Return(Str("\"" \o v.s \o "\""))
      [] v.t = "error" -> Return(Str("{}"))
      [] v.t = "promise" -> Return(Str("{}"))
      [] v.t = "array" ->
            LET body == SerializeElements(v.e, 1)
            IN  IF body.kind = "throw" THEN body
                ELSE Return(Str("[" \o body.val.s \o "]"))
      [] v.t = "object" ->
            LET body == SerializeProperties(v.e, 1, FALSE)
            IN  IF body.kind = "throw" THEN body
                ELSE Return(Str("{" \o body.val.s \o "}"))

\* helpers.ts:6  nullish !== null && typeof nullish === "object"
IsObject(v) == v.t \in {"array", "object", "error", "promise"}

\* helpers.ts:9  nullish === argument, reached for a marker that is no object:
\* equal type and equal payload (an object never equals a non-object).
StrictEquals(a, b) == a = b

\* helpers.ts:5-10  the callback of some(): does this marker match?
MarkerMatches(nullish, arg) ==
    IF IsObject(nullish)
    THEN LET left == JSONStringify(nullish)
             right == JSONStringify(arg)
         IN  IF left.kind = "throw" THEN left
             ELSE IF right.kind = "throw" THEN right
             ELSE Return(Bool(left.val = right.val))
    ELSE Return(Bool(StrictEquals(nullish, arg)))

\* helpers.ts:1-11  isNullish: Array.prototype.some over the markers from
\* index i on; it stops at the first match, and an exception of the
\* comparison leaves it at once.
RECURSIVE SomeFrom(_, _, _)
SomeFrom(markers, arg, i) ==
    IF i > Len(markers) THEN Return(Bool(FALSE))
    ELSE LET m == MarkerMatches(markers[i], arg)
         IN  IF m.kind = "throw" THEN m
             ELSE IF m.val = Bool(TRUE) THEN Return(Bool(TRUE))
             ELSE SomeFrom(markers, arg, i + 1)

isNullish(arg, markers) == SomeFrom(markers, arg, 1)

(***************************************************************************)
(* The user functions: the lookups of example.ts (sync and async) and the  *)
(* callbacks of the test suite.                                            *)
(***************************************************************************)
bikePreference ==
    Obj(<<Entry("description", Str("A bike made to go superfast")),
          Entry("name", Str("Road bike"))>>)
runningPreference ==
    Obj(<<Entry("description", Str("Lightweight shoes for long miles")),
          Entry("name", Str("Running shoes"))>>)
User(preference) == Obj(<<Entry("preference", preference)>>)

\* db.userMap.get / db.preferenceItemMap.get / db.itemInfoMap.get: a Map
\* looks a primitive key up by value and yields undefined for any other key.
userMapGet(key) ==
    CASE key = Str("firstUser") -> User(Str("cycling"))
      [] key = Str("secondUser") -> User(Str("running"))
      [] key = Str("thirdUser") -> User(Str("missingPreference"))
      [] key = Str("fourthUser") -> User(Undefined)
      [] OTHER -> Undefined
preferenceItemMapGet(key) ==
    CASE key = Str("cycling") -> BigInt(123)
      [] key = Str("running") -> BigInt(456)
      [] OTHER -> Undefined
itemInfoMapGet(key) ==
    CASE key = BigInt(123) -> bikePreference
      [] key = BigInt(456) -> runningPreference
      [] OTHER -> Undefined

\* user.preference: reading a property of undefined or null throws; a
\* primitive or an object without the property yields undefined.
GetProperty(v, name) ==
    IF v.t \in {"undefined", "null"}
    THEN Throw(Err("TypeError: Cannot read properties of " \o v.t))
    ELSE IF v.t = "object" /\ \E i \in 1..Len(v.e) : v.e[i].k = name
         THEN Return(v.e[CHOOSE i \in 1..Len(v.e) : v.e[i].k = name].v)
         ELSE Return(Undefined)

\* Array.prototype.includes on a list of primitives (SameValueZero).
Includes(list, v) == \E i \in 1..Len(list) : list[i] = v

mockReturn == Str("mockReturn")
nonNullish == Str("nonNullish")
mockRest == <<Num(0), Undefined>>

\* An argument list may be shorter than the parameter list.
ArgAt(args, i) == IF i <= Len(args) THEN args[i] ELSE Undefined

\* The functions that are given to a sync chain.
SyncFunctions ==
    {"getUser", "getUserPreference", "getPreferredItemId", "getItemDetails",
     "falseOnNullish", "cbMultiple"}
\* The promise-returning functions; each resolves to what its sync
\* counterpart returns.
AsyncFunctions ==
    {"getUserAsync", "getUserPreferenceAsync", "getPreferredItemIdAsync",
     "getItemDetailsAsync", "cbMultipleAsync"}

Counterpart(fn) ==
    CASE fn = "getUserAsync" -> "getUser"
      [] fn = "getUserPreferenceAsync" -> "getUserPreference"
      [] fn = "getPreferredItemIdAsync" -> "getPreferredItemId"
      [] fn = "getItemDetailsAsync" -> "getItemDetails"
      [] fn = "cbMultipleAsync" -> "cbMultiple"
      [] OTHER -> fn

\* What the body of a function computes from its argument list.
Apply(fn, args) ==
    LET f == Counterpart(fn)
    IN  CASE f = "getUser" -> Return(userMapGet(ArgAt(args, 1)))
          [] f = "getUserPreference" -> GetProperty(ArgAt(args, 1), "preference")
          [] f = "getPreferredItemId" -> Return(preferenceItemMapGet(ArgAt(args, 1)))
          [] f = "getItemDetails" -> Return(itemInfoMapGet(ArgAt(args, 1)))
          [] f = "falseOnNullish" ->
                Return(Bool(~Includes(SubSeq(args, 2, Len(args)), ArgAt(args, 1))))
          [] f = "cbMultiple" -> Return(mockReturn)

(***************************************************************************)
(* Bounds and inputs of the model.                                         *)
(***************************************************************************)
\* The number of continuation calls made in one run.
MaxCalls == 3

\* The values a chain is started with.
FirstValues ==
    {Str("firstUser"), Str("fourthUser"), Num(-1), Null, BigInt(123)}

\* The marker lists a chain is started with: the default one of monadRun,
\* the one of the monadSetup test, and one with a composite marker.
MarkerLists == {<<Undefined>>, <<Num(-1), Null>>, <<Obj(<<>>), Undefined>>}

\* The extra arguments a function is called with.
RestsOf(fn) ==
    CASE Counterpart(fn) = "falseOnNullish" -> {<<Num(-1), Null>>, <<Undefined>>}
      [] Counterpart(fn) = "cbMultiple" -> {mockRest}
      [] OTHER -> {<<>>}

(***************************************************************************)
(* monad.ts                                                                *)
(***************************************************************************)
\* What a call of bind does: kind/val is its result (a return or a throw),
\* invoked whether it called the callback, and args with which arguments.
BindResult(k, v, inv, a) == [kind |-> k, val |-> v, invoked |-> inv, args |-> a]

\* bind without the early return of line 12.
bindIgnoresNullish(callback, markers, firstArgument, rest) ==
    LET args == <<firstArgument>> \o rest
        r == Apply(callback, args)
    IN  BindResult(r.kind, r.val, TRUE, args)

\* bind that catches what the callback throws and returns undefined.
bindCatches(callback, markers, firstArgument, rest) ==
    LET nullish == isNullish(firstArgument, markers)
        args == <<firstArgument>> \o rest
    IN  IF nullish.kind = "throw"
        THEN BindResult("throw", nullish.val, FALSE, <<>>)
        ELSE IF nullish.val = Bool(TRUE)
             THEN BindResult("return", firstArgument, FALSE, <<>>)
             ELSE LET r == Apply(callback, args)
                  IN  BindResult("return",
                                 IF r.kind = "throw" THEN Undefined ELSE r.val,
                                 TRUE, args)

\* bind that calls callback(firstArgument) and leaves out ...rest.
bindDropsRest(callback, markers, firstArgument, rest) ==
    LET nullish == isNullish(firstArgument, markers)
        args == <<firstArgument>>
    IN  IF nullish.kind = "throw"
        THEN BindResult("throw", nullish.val, FALSE, <<>>)
        ELSE IF nullish.val = Bool(TRUE)
             THEN BindResult("return", firstArgument, FALSE, <<>>)
             ELSE LET r == Apply(callback, args)
                  IN  BindResult(r.kind, r.val, TRUE, args)

\* monad.ts:10-15
bind(callback, markers, firstArgument, rest) ==
    LET nullish == isNullish(firstArgument, markers)
        args == <<firstArgument>> \o rest
    IN  IF nullish.kind = "throw"
        THEN BindResult("throw", nullish.val, FALSE, <<>>)
        ELSE IF nullish.val = Bool(TRUE)
             THEN BindResult("return", firstArgument, FALSE, <<>>)
             ELSE LET r == Apply(callback, args)
                  IN  BindResult(r.kind, r.val, TRUE, args)

(***************************************************************************)
(* A chain step {value, pipe}.  The closure of pipe holds prev and         *)
(* nullishTypes; for an async step value is a promise, whose state and     *)
(* settled value the step records:                                         *)
(*   kind      "sync" or "async"                                           *)
(*   parent    the step whose continuation created it (0: the initializer) *)
(*   call      the number of the continuation call that created it         *)
(*   callback, rest   what the continuation call was given                 *)
(*   markers   the nullishTypes its pipe closure holds                     *)
(*   held      what its pipe closure holds as prev: "value" or "promise"   *)
(*   state     of value: "fulfilled" (a sync step has a value at once),    *)
(*             "pending" or "rejected"                                     *)
(*   value     the value, or the reason of the rejection                   *)
(*   pc        where its bindAsync call stands: "await" (line 19),         *)
(*             "adopt" (returned the callback's promise, line 25), "done"  *)
(*   q         the promise user code supplied: the one the callback        *)
(*             returned or the first value; state "none" when there is     *)
(*             none, and kind/val what it settles to                       *)
(***************************************************************************)
NoPromise == [state |-> "none", kind |-> "return", val |-> Undefined]

StepOf(k, p, n, cb, r, m, h, st, v, c, qq) ==
    [kind |-> k, parent |-> p, call |-> n, callback |-> cb, rest |-> r,
     markers |-> m, held |-> h, state |-> st, value |-> v, pc |-> c, q |-> qq]

\* An entry of calls: continuation call number n invoked fn with args.
Call(n, fn, a) == [call |-> n, fn |-> fn, args |-> a]

\* monad.ts:30-33
monad(firstArgument, markers) ==
    StepOf("sync", 0, 0, "", <<>>, markers, "value", "fulfilled",
           firstArgument, "done", NoPromise)

\* A continuation whose new step falls back to the default marker list.
pipeStepDefaultMarkers(prev, p, n, callback, rest, value) ==
    StepOf("sync", p, n, callback, rest, <<Undefined>>, "value", "fulfilled",
           value, "done", NoPromise)

\* monad.ts:27: { value, pipe: pipe(value, nullishTypes) }, the step that the
\* continuation of the step prev (numbered p) returns in call n, given the
\* result of bind; its closure gets the nullishTypes that prev's closure holds.
pipeStep(prev, p, n, callback, rest, value) ==
    StepOf("sync", p, n, callback, rest, prev.markers, "value", "fulfilled",
           value, "done", NoPromise)

\* monad.ts:17-28: the step that the continuation of step p returns, given
\* the result of bind.
pipe(p, n, callback, rest, value) ==
    pipeStep(steps[p], p, n, callback, rest, value)

\* The continuation calls made so far: each returned a step that is not an
\* initial step, or threw.
CallsMade ==
    Cardinality({i \in 1..Len(steps) : steps[i].parent # 0}) + Len(thrown)

Monad(v, m) ==
    /\ steps = <<>>
    /\ outcome.kind = "chain"
    /\ steps' = <<monad(v, m)>>
    /\ UNCHANGED <<calls, checks, thrown, argument, nullishTypes, outcome, wrapped>>

\* A continuation that also stores the new value in the step it was called
\* on.
PipeInPlace(p, callback, rest) ==
    /\ p \in 1..Len(steps)
    /\ steps[p].kind = "sync"
    /\ CallsMade < MaxCalls
    /\ LET b == bind(callback, steps[p].markers, steps[p].value, rest)
           n == CallsMade + 1
       IN  /\ checks' = Append(checks, p)
           /\ calls' = IF b.invoked THEN Append(calls, Call(n, callback, b.args))
                       ELSE calls
           /\ IF b.kind = "throw"
              THEN /\ thrown' = Append(thrown, [parent |-> p, call |-> n,
                                                callback |-> callback,
                                                rest |-> rest, error |-> b.val])
                   /\ UNCHANGED steps
              ELSE /\ steps' = Append([steps EXCEPT ![p].value = b.val],
                                      pipe(p, n, callback, rest, b.val))
                   /\ UNCHANGED thrown
    /\ UNCHANGED <<argument, nullishTypes, outcome, wrapped>>

\* A call steps[p].pipe(callback, ...rest) of a sync chain.
Pipe(p, callback, rest) ==
    /\ p \in 1..Len(steps)
    /\ steps[p].kind = "sync"
    /\ CallsMade < MaxCalls
    /\ LET b == bind(callback, steps[p].markers, steps[p].value, rest)
           n == CallsMade + 1
       IN  /\ checks' = Append(checks, p)
           /\ calls' = IF b.invoked THEN Append(calls, Call(n, callback, b.args))
                       ELSE calls
           /\ IF b.kind = "throw"
              THEN /\ thrown' = Append(thrown, [parent |-> p, call |-> n,
                                                callback |-> callback,
                                                rest |-> rest, error |-> b.val])
                   /\ UNCHANGED steps
              ELSE /\ steps' = Append(steps, pipe(p, n, callback, rest, b.val))
                   /\ UNCHANGED thrown
    /\ UNCHANGED <<argument, nullishTypes, outcome, wrapped>>

(***************************************************************************)
(* monadAsync.ts                                                           *)
(***************************************************************************)
\* The promise an async function returns: the lookups of example.ts await
\* once before they return, so their promise is pending at first; the mock
\* (mockResolvedValue) returns a promise that is settled already.
ReturnedPromise(fn, r) ==
    [state |-> IF fn = "cbMultipleAsync" THEN "settled" ELSE "pending",
     kind |-> r.kind, val |-> r.val]

\* What bindAsync does from line 21 on, with the unwrapped first argument:
\* how the promise it returned stands afterwards (state, value, pc, q).
AsyncResult(st, v, c, qq, inv, a) ==
    [state |-> st, value |-> v, pc |-> c, q |-> qq, invoked |-> inv, args |-> a]

\* A bindAsync whose promise is fulfilled with the promise the callback
\* returned, not with what that promise settles to.
CallAsyncKeepsPromise(callback, args) ==
    LET r == Apply(callback, args)
    IN  IF callback \in AsyncFunctions
        THEN AsyncResult("fulfilled", PromiseObject, "done",
                         ReturnedPromise(callback, r), TRUE, args)
        ELSE IF r.kind = "throw"
             THEN AsyncResult("rejected", r.val, "done", NoPromise, TRUE, args)
             ELSE AsyncResult("fulfilled", r.val, "done", NoPromise, TRUE, args)

\* The rest of a bindAsync call for given arguments of the callback.
CallAsync(callback, args) ==
    LET r == Apply(callback, args)
    IN  IF callback \in AsyncFunctions
        THEN AsyncResult("pending", Undefined, "adopt",
                         ReturnedPromise(callback, r), TRUE, args)
        ELSE IF r.kind = "throw"
             THEN AsyncResult("rejected", r.val, "done", NoPromise, TRUE, args)
             ELSE AsyncResult("fulfilled", r.val, "done", NoPromise, TRUE, args)

\* bindAsync that returns undefined, not the first argument, on a nullish
\* first argument.
bindAsyncReturnsUndefined(callback, markers, unwrappedFirst, rest) ==
    LET nullish == isNullish(unwrappedFirst, markers)
    IN  IF nullish.kind = "throw"
        THEN AsyncResult("rejected", nullish.val, "done", NoPromise, FALSE, <<>>)
        ELSE IF nullish.val = Bool(TRUE)
             THEN AsyncResult("fulfilled", Undefined, "done", NoPromise,
                              FALSE, <<>>)
             ELSE CallAsync(callback, <<unwrappedFirst>> \o rest)

\* bindAsync that passes the extra arguments ahead of the first argument.
bindAsyncRestFirst(callback, markers, unwrappedFirst, rest) ==
    LET nullish == isNullish(unwrappedFirst, markers)
    IN  IF nullish.kind = "throw"
        THEN AsyncResult("rejected", nullish.val, "done", NoPromise, FALSE, <<>>)
        ELSE IF nullish.val = Bool(TRUE)
             THEN AsyncResult("fulfilled", unwrappedFirst, "done", NoPromise,
                              FALSE, <<>>)
             ELSE CallAsync(callback, rest \o <<unwrappedFirst>>)

\* bindAsync without the early return of line 22.
bindAsyncIgnoresNullish(callback, markers, unwrappedFirst, rest) ==
    CallAsync(callback, <<unwrappedFirst>> \o rest)

\* monadAsync.ts:21-25
bindAsyncBody(callback, markers, unwrappedFirst, rest) ==
    LET nullish == isNullish(unwrappedFirst, markers)
        args == <<unwrappedFirst>> \o rest
    IN  IF nullish.kind = "throw"
        THEN AsyncResult("rejected", nullish.val, "done", NoPromise, FALSE, <<>>)
        ELSE IF nullish.val = Bool(TRUE)
             THEN AsyncResult("fulfilled", unwrappedFirst, "done", NoPromise,
                              FALSE, <<>>)
             ELSE CallAsync(callback, args)

\* bindAsync that never awaits: it goes on with what the promise holds at
\* the time of the call.
bindAsyncNeverAwaits(held) == FALSE

\* bindAsync that awaits its first argument whatever it is.
bindAsyncAlwaysAwaits(held) == TRUE

\* monadAsync.ts:17-20: bindAsync suspends iff its first argument is a
\* Promise, settled or not.
bindAsyncAwaits(held) == held = "promise"

\* monadAsync.ts:44-50.  firstMode "value": an immediate first value;
\* "resolves" / "rejects": a pending promise that settles that way, which
\* Promise.resolve hands on as it is.
monadAsync(firstArgument, markers, firstMode) ==
    IF firstMode = "value"
    THEN StepOf("async", 0, 0, "", <<>>, markers, "value", "fulfilled",
                firstArgument, "done", NoPromise)
    ELSE StepOf("async", 0, 0, "", <<>>, markers, "promise", "pending",
                Undefined, "done",
                [state |-> "pending",
                 kind |-> IF firstMode = "rejects" THEN "throw" ELSE "return",
                 val |-> IF firstMode = "rejects" THEN Err("first rejected")
                         ELSE firstArgument])

\* monadAsync.ts:37-40: { value: Promise.resolve(value), pipe:
\* pipeAsync(value, nullishTypes) }, the step that the continuation of the
\* step prev (numbered p) returns in call n; r is how the promise of its
\* bindAsync call stands when the call returns.
pipeAsyncStep(prev, p, n, callback, rest, r) ==
    StepOf("async", p, n, callback, rest, prev.markers, "promise",
           r.state, r.value, r.pc, r.q)

\* monadAsync.ts:28-42: the step a continuation call on step p returns.
pipeAsync(p, n, callback, rest, r) ==
    pipeAsyncStep(steps[p], p, n, callback, rest, r)

\* A continuation that can only be called once the value has settled.
pipeAsyncWaits(p) ==
    p \in 1..Len(steps) /\ steps[p].kind = "async" /\ steps[p].state # "pending"

\* The guard of a continuation call of an async step: the step exists.
pipeAsyncCallable(p) == p \in 1..Len(steps) /\ steps[p].kind = "async"

MonadAsync(v, m, firstMode) ==
    /\ steps = <<>>
    /\ outcome.kind = "chain"
    /\ steps' = <<monadAsync(v, m, firstMode)>>
    /\ UNCHANGED <<calls, checks, thrown, argument, nullishTypes, outcome, wrapped>>

\* A bindAsync call that checks the value it returns as well.
RunBodyChecksResult(i, p, n, callback, rest, r) ==
    /\ checks' = checks \o <<p, i>>
    /\ calls' = IF r.invoked THEN Append(calls, Call(n, callback, r.args))
                ELSE calls

\* The part of a bindAsync call from line 21 on, for the step numbered i of
\* call n with parent p.
RunBody(i, p, n, callback, rest, r) ==
    /\ checks' = Append(checks, p)
    /\ calls' = IF r.invoked THEN Append(calls, Call(n, callback, r.args))
                ELSE calls

\* A call steps[p].pipe(callback, ...rest) of an async chain, up to its
\* return.
PipeAsync(p, callback, rest) ==
    /\ pipeAsyncCallable(p)
    /\ CallsMade < MaxCalls
    /\ LET n == CallsMade + 1
           i == Len(steps) + 1
       IN  IF bindAsyncAwaits(steps[p].held)
           THEN /\ steps' = Append(steps,
                       pipeAsync(p, n, callback, rest,
                           AsyncResult("pending", Undefined, "await", NoPromise,
                                       FALSE, <<>>)))
                /\ UNCHANGED <<calls, checks>>
           ELSE LET r == bindAsyncBody(callback, steps[p].markers,
                                       steps[p].value, rest)
                IN  /\ steps' = Append(steps, pipeAsync(p, n, callback, rest, r))
                    /\ RunBody(i, p, n, callback, rest, r)
    /\ UNCHANGED <<thrown, argument, nullishTypes, outcome, wrapped>>

\* An await that never goes on.
AwaitNever(p) == FALSE

\* An await that goes on although the promise is pending.
AwaitNotAwaited(p) == TRUE

\* monadAsync.ts:19: the await goes on once the promise, the value of step
\* p, has settled.
AwaitSettled(p) == steps[p].state # "pending"

\* An await that hands a rejection on as if it were a value.
AwaitNeverThrows(p) == FALSE

\* monadAsync.ts:19: the await throws the reason of a rejected promise, which
\* ends the bindAsync call (nothing catches it).
AwaitThrows(p) == steps[p].state = "rejected"

\* bindAsync of step i resumes at line 19 once the promise it awaits (the
\* value of its parent step) has settled.
Resume(i) ==
    /\ i \in 1..Len(steps)
    /\ steps[i].pc = "await"
    /\ LET p == steps[i].parent
           s == steps[i]
       IN  /\ AwaitSettled(p)
           /\ IF AwaitThrows(p)
              THEN /\ steps' = [steps EXCEPT ![i].state = "rejected",
                                             ![i].value = steps[p].value,
                                             ![i].pc = "done"]
                   /\ UNCHANGED <<calls, checks>>
              ELSE LET r == bindAsyncBody(s.callback, s.markers,
                                          steps[p].value, s.rest)
                   IN  /\ steps' = [steps EXCEPT ![i].state = r.state,
                                                 ![i].value = r.value,
                                                 ![i].pc = r.pc,
                                                 ![i].q = r.q]
                       /\ RunBody(i, p, s.call, s.callback, s.rest, r)
    /\ UNCHANGED <<thrown, argument, nullishTypes, outcome, wrapped>>

QState(q) == IF q.kind = "throw" THEN "rejected" ELSE "fulfilled"

\* A pending promise of user code settles: the promise an async function
\* returned, or the first value (which is the value of the initial step).
SettleUser(i) ==
    /\ i \in 1..Len(steps)
    /\ steps[i].q.state = "pending"
    /\ steps' = IF steps[i].parent = 0
                THEN [steps EXCEPT ![i].q.state = "settled",
                                   ![i].state = QState(steps[i].q),
                                   ![i].value = steps[i].q.val]
                ELSE [steps EXCEPT ![i].q.state = "settled"]
    /\ UNCHANGED <<calls, checks, thrown, argument, nullishTypes, outcome, wrapped>>

\* The promise of bindAsync takes the state of the settled promise that the
\* callback returned (line 25: return of a promise from an async function).
Adopt(i) ==
    /\ i \in 1..Len(steps)
    /\ steps[i].pc = "adopt"
    /\ steps[i].q.state = "settled"
    /\ steps' = [steps EXCEPT ![i].state = QState(steps[i].q),
                              ![i].value = steps[i].q.val,
                              ![i].pc = "done"]
    /\ UNCHANGED <<calls, checks, thrown, argument, nullishTypes, outcome, wrapped>>

(***************************************************************************)
(* The specification of the chains: one chain is started, sync or async,   *)
(* and continuation calls are made on any of its steps; the pending        *)
(* promises of an async chain settle, and its bindAsync calls resume, in   *)
(* any order the event loop allows.                                        *)
(***************************************************************************)
ChainIdle == [kind |-> "chain", val |-> Undefined]

Init ==
    /\ steps = <<>>
    /\ calls = <<>>
    /\ checks = <<>>
    /\ thrown = <<>>
    /\ argument = Undefined
    /\ nullishTypes = <<>>
    /\ outcome = ChainIdle
    /\ wrapped = <<>>

\* The functions given to an async chain: async ones and sync ones.
AsyncChainFunctions ==
    {"getUserAsync", "getUserPreferenceAsync", "cbMultipleAsync",
     "getUserPreference", "falseOnNullish"}

\* A linear chain: each continuation call is made on the newest step.
Next ==
    \/ \E v \in FirstValues, m \in MarkerLists : Monad(v, m)
    \/ \E v \in FirstValues, m \in MarkerLists,
          firstMode \in {"value", "resolves", "rejects"} : MonadAsync(v, m, firstMode)
    \/ \E f \in SyncFunctions : \E r \in RestsOf(f) : Pipe(Len(steps), f, r)
    \/ \E f \in AsyncChainFunctions :
          \E r \in RestsOf(f) : PipeAsync(Len(steps), f, r)
    \/ \E i \in 1..Len(steps) : Resume(i)
    \/ \E i \in 1..Len(steps) : SettleUser(i)
    \/ \E i \in 1..Len(steps) : Adopt(i)

Spec == Init /\ [][Next]_vars

(***************************************************************************)
(* Bound of the specification of the wrappers and branching chains.        *)
(***************************************************************************)
\* The number of continuation calls made in one run of SpecTree, those that
\* the wrappers make included.
MaxTreeCalls == 2

(***************************************************************************)
(* The convenience wrappers, monad.ts:35-59 and monadAsync.ts:52-76.       *)
(* monadSetup(...nullishTypes) returns a closure that holds nullishTypes;  *)
(* a call of that closure, like a call of monadRun, makes an initial step  *)
(* and calls its continuation once.                                        *)
(***************************************************************************)
\* A default marker list that holds null as well.
DefaultNullishTypesWithNull == <<Undefined, Null>>

\* monad.ts:46 and monadAsync.ts:63  const nullishTypes = [undefined]
DefaultNullishTypes == <<Undefined>>

\* An entry of wrapped: the wrapper that was called, with which function,
\* first argument (mode: immediate or a promise) and extra arguments, the
\* number of the initial step it made and of its continuation call.
Wrapped(name, callback, first, mode, rest, root, n) ==
    [wrapper |-> name, callback |-> callback, first |-> first, mode |-> mode,
     rest |-> rest, root |-> root, call |-> n]

\* monad.ts:47 and 59  monad(firstArgument, ...nullishTypes).pipe(callback,
\* ...rest): the initial step is made, and its continuation, which holds
\* firstArgument and nullishTypes (monad.ts:33), is called at once.
RunSync(name, callback, firstArgument, markers, rest) ==
    /\ CallsMade < MaxTreeCalls
    /\ \E root \in {monad(firstArgument, markers)} :
       \E b \in {bind(callback, root.markers, root.value, rest)} :
       \E p \in {Len(steps) + 1} : \E n \in {CallsMade + 1} :
          /\ checks' = Append(checks, p)
          /\ calls' = IF b.invoked THEN Append(calls, Call(n, callback, b.args))
                      ELSE calls
          /\ IF b.kind = "throw"
             THEN /\ thrown' = Append(thrown, [parent |-> p, call |-> n,
                                               callback |-> callback,
                                               rest |-> rest, error |-> b.val])
                  /\ steps' = Append(steps, root)
             ELSE /\ steps' = steps \o <<root, pipeStep(root, p, n, callback,
                                                        rest, b.val)>>
                  /\ UNCHANGED thrown
          /\ wrapped' = Append(wrapped, Wrapped(name, callback, firstArgument,
                                                "value", rest, p, n))
    /\ UNCHANGED <<argument, nullishTypes, outcome>>

\* What the bindAsync call of a continuation call on the step prev comes to
\* by the time the call returns.
AtReturn(prev, callback, rest) ==
    IF bindAsyncAwaits(prev.held)
    THEN AsyncResult("pending", Undefined, "await", NoPromise, FALSE, <<>>)
    ELSE bindAsyncBody(callback, prev.markers, prev.value, rest)

\* monadAsync.ts:64 and 76  monadAsync(firstArgument, ...nullishTypes)
\* .pipe(callback, ...rest)
RunAsync(name, callback, firstArgument, firstMode, markers, rest) ==
    /\ CallsMade < MaxTreeCalls
    /\ \E root \in {monadAsync(firstArgument, markers, firstMode)} :
       \E r \in {AtReturn(root, callback, rest)} :
       \E p \in {Len(steps) + 1} : \E n \in {CallsMade + 1} :
          /\ steps' = steps \o <<root, pipeAsyncStep(root, p, n, callback, rest, r)>>
          /\ IF r.pc = "await"
             THEN UNCHANGED <<calls, checks>>
             ELSE RunBody(p + 1, p, n, callback, rest, r)
          /\ wrapped' = Append(wrapped, Wrapped(name, callback, firstArgument,
                                                firstMode, rest, p, n))
    /\ UNCHANGED <<thrown, argument, nullishTypes, outcome>>

\* No wrapper has been set up yet.
TreeIdle == [kind |-> "wrappers", val |-> Undefined]
\* The closure that a setup call returned.
Context(name) == [kind |-> name, val |-> Undefined]

InTree == outcome.kind \in {"wrappers", "monadSetup", "monadAsyncSetup"}

\* monad.ts:37-48
MonadRun(callback, firstArgument, rest) ==
    /\ InTree
    /\ RunSync("monadRun", callback, firstArgument, DefaultNullishTypes, rest)

\* monadAsync.ts:54-65
MonadAsyncRun(callback, firstArgument, firstMode, rest) ==
    /\ InTree
    /\ RunAsync("monadAsyncRun", callback, firstArgument, firstMode,
                DefaultNullishTypes, rest)

\* monad.ts:52-53  monadSetup(...nullishTypes) returns the closure.
MonadSetup(markers) ==
    /\ outcome = TreeIdle
    /\ nullishTypes' = markers
    /\ outcome' = Context("monadSetup")
    /\ UNCHANGED <<steps, calls, checks, thrown, argument, wrapped>>

\* monadAsync.ts:69-70
MonadAsyncSetup(markers) ==
    /\ outcome = TreeIdle
    /\ nullishTypes' = markers
    /\ outcome' = Context("monadAsyncSetup")
    /\ UNCHANGED <<steps, calls, checks, thrown, argument, wrapped>>

\* monad.ts:54-59: a call of the closure of monadSetup.
MonadContext(callback, firstArgument, rest) ==
    /\ outcome = Context("monadSetup")
    /\ RunSync("monadSetup", callback, firstArgument, nullishTypes, rest)

\* monadAsync.ts:71-76: a call of the closure of monadAsyncSetup.
AsyncMonadContext(callback, firstArgument, firstMode, rest) ==
    /\ outcome = Context("monadAsyncSetup")
    /\ RunAsync("monadAsyncSetup", callback, firstArgument, firstMode,
                nullishTypes, rest)

(***************************************************************************)
(* The specification of the wrappers and of branching chains: a wrapper is *)
(* set up, the wrappers are called any number of times, and continuation   *)
(* calls are made on any step, also on one that was continued before.      *)
(***************************************************************************)
\* The first arguments and marker lists of the monadSetup test.
TreeValues == {Num(-1), Null, Undefined}
TreeMarkerLists == {<<Num(-1), Null>>, <<Undefined>>}
TreeSyncFunctions == {"falseOnNullish", "getUserPreference"}
TreeAsyncFunctions == {"falseOnNullish", "getUserPreferenceAsync"}
TreeModes == {"value"}

InitTree ==
    /\ steps = <<>>
    /\ calls = <<>>
    /\ checks = <<>>
    /\ thrown = <<>>
    /\ argument = Undefined
    /\ nullishTypes = <<>>
    /\ outcome = TreeIdle
    /\ wrapped = <<>>

NextTree ==
    \/ \E m \in TreeMarkerLists : MonadSetup(m)
    \/ \E m \in TreeMarkerLists : MonadAsyncSetup(m)
    \/ \E f \in TreeSyncFunctions : \E r \in RestsOf(f) :
          \E v \in TreeValues : MonadRun(f, v, r)
    \/ \E f \in TreeSyncFunctions : \E r \in RestsOf(f) :
          \E v \in TreeValues : MonadContext(f, v, r)
    \/ \E f \in TreeAsyncFunctions : \E r \in RestsOf(f) :
          \E v \in TreeValues, mode \in TreeModes : MonadAsyncRun(f, v, mode, r)
    \/ \E f \in TreeAsyncFunctions : \E r \in RestsOf(f) :
          \E v \in TreeValues, mode \in TreeModes :
             AsyncMonadContext(f, v, mode, r)
    \/ /\ CallsMade < MaxTreeCalls
       /\ \E p \in 1..Len(steps) : \E f \in TreeSyncFunctions :
             \E r \in RestsOf(f) : Pipe(p, f, r)
    \/ /\ CallsMade < MaxTreeCalls
       /\ \E p \in 1..Len(steps) : \E f \in TreeAsyncFunctions :
             \E r \in RestsOf(f) : PipeAsync(p, f, r)
    \/ \E i \in 1..Len(steps) : Resume(i)
    \/ \E i \in 1..Len(steps) : SettleUser(i)
    \/ \E i \in 1..Len(steps) : Adopt(i)

SpecTree == InitTree /\ [][NextTree]_vars

(***************************************************************************)
(* The specification of an async chain under the scheduling of the event   *)
(* loop: a bindAsync call that can go on (its await or the promise it      *)
(* returned has settled) is run in the end, and a pending promise of user  *)
(* code (the first value, the promise an async function returned) settles  *)
(* in the end.  Whether and when continuation calls are made is up to the  *)
(* caller.                                                                 *)
(***************************************************************************)
LiveValues == {Str("firstUser"), Null}
LiveMarkerLists == {<<Undefined>>, <<Num(-1), Null>>}
LiveFunctions == {"getUserAsync", "getUserPreferenceAsync", "getUserPreference"}

\* The event loop runs a job of the microtask queue: a bindAsync call goes on
\* after its await, or its promise takes over the settled promise it returned.
EventLoop == \E i \in 1..Len(steps) : Resume(i) \/ Adopt(i)

\* A pending promise of user code settles.
UserSettles == \E i \in 1..Len(steps) : SettleUser(i)

NextLive ==
    \/ \E v \in LiveValues, m \in LiveMarkerLists,
          firstMode \in {"value", "resolves", "rejects"} : MonadAsync(v, m, firstMode)
    \/ \E f \in LiveFunctions : \E r \in RestsOf(f) : PipeAsync(Len(steps), f, r)
    \/ EventLoop
    \/ UserSettles

SpecLive ==
    Init /\ [][NextLive]_vars /\ WF_vars(EventLoop) /\ WF_vars(UserSettles)

(***************************************************************************)
(* The specification of the predicate alone: isNullish is called once on   *)
(* a value and a marker list (the cases of its test, and their variants).  *)
(***************************************************************************)
\* The length of a marker list.
MaxMarkers == 2

objNull == Obj(<<Entry("type", Str("null"))>>)
nullishArr == Arr(<<Num(1), Num(2), Num(3)>>)

Markers ==
    {Undefined, Null, Num(-1), BigInt(123), objNull, Arr(<<>>), nullishArr}

Values ==
    {Undefined, Null, Num(-1), Num(5), Str("something"), BigInt(123),
     objNull,
     Obj(<<Entry("type", Str("null")), Entry("other", Str("other"))>>),
     Obj(<<Entry("other", Str("other")), Entry("type", Str("null"))>>),
     Obj(<<Entry("type", Str("null")), Entry("other", Undefined)>>),
     Obj(<<>>),
     Arr(<<>>), Arr(<<Null>>), Arr(<<Undefined>>),
     nullishArr, Arr(<<Num(1), Num(2)>>), Arr(<<Num(3), Num(2), Num(1)>>)}

NullishLists ==
    UNION {[1..n -> Markers] : n \in 0..MaxMarkers}

NotCalled == [kind |-> "none", val |-> Undefined]

InitNullish ==
    /\ steps = <<>>
    /\ calls = <<>>
    /\ checks = <<>>
    /\ thrown = <<>>
    /\ argument \in Values
    /\ nullishTypes \in NullishLists
    /\ outcome = NotCalled
    /\ wrapped = <<>>

CallIsNullish ==
    /\ outcome = NotCalled
    /\ outcome' = isNullish(argument, nullishTypes)
    /\ UNCHANGED <<steps, calls, checks, thrown, argument, nullishTypes, wrapped>>

NextNullish == CallIsNullish

SpecNullish == InitNullish /\ [][NextNullish]_vars

(***************************************************************************)
(* Properties.                                                             *)
(***************************************************************************)
\* Continuation call n invoked its user function / how many times.
InvocationsOf(n) == Cardinality({j \in 1..Len(calls) : calls[j].call = n})
Invoked(n) == InvocationsOf(n) > 0

\* The steps a step descends from.
RECURSIVE Ancestors(_)
Ancestors(i) ==
    IF steps[i].parent = 0 THEN {}
    ELSE {steps[i].parent} \cup Ancestors(steps[i].parent)

\* The value of step a is there and isNullish returns true / false on it.
NullishAt(a) ==
    /\ steps[a].state = "fulfilled"
    /\ isNullish(steps[a].value, steps[a].markers) = Return(Bool(TRUE))
NotNullishAt(a) ==
    /\ steps[a].state = "fulfilled"
    /\ isNullish(steps[a].value, steps[a].markers) = Return(Bool(FALSE))

IsChain(kind) == Len(steps) > 0 /\ steps[1].kind = kind

\* C1: short-circuit.  Once the value of a stage is nullish, the value of
\* every later stage of the chain is that same value (an async value resolves
\* to it), no user function of a later stage is invoked, no later
\* continuation call throws, and so the invocations stay those made up to
\* the stage where the nullish value appeared.
C1_ShortCircuit ==
    /\ \A i \in 1..Len(steps) : \A a \in Ancestors(i) :
          NullishAt(a) =>
             /\ ~Invoked(steps[i].call)
             /\ steps[i].state # "rejected"
             /\ steps[i].state = "fulfilled" => steps[i].value = steps[a].value
             /\ steps[i].pc = "done" => steps[i].state = "fulfilled"
    /\ \A t \in 1..Len(thrown) : ~NullishAt(thrown[t].parent)
    /\ \A a \in 1..Len(steps) :
          NullishAt(a) => \A j \in 1..Len(calls) : calls[j].call <= steps[a].call

\* An async chain in which the function of the first stage returned a
\* nullish value and two more stages were chained and have settled.
C1_Witness ==
    /\ IsChain("async")
    /\ Len(steps) = 4
    /\ NotNullishAt(1) /\ NullishAt(2) /\ Invoked(steps[2].call)
    /\ steps[3].pc = "done" /\ steps[4].pc = "done"
    /\ steps[4].value = steps[2].value
    /\ Len(calls) = 1

\* The same in a sync chain.
C1_WitnessSync ==
    /\ IsChain("sync")
    /\ Len(steps) = 4
    /\ NotNullishAt(1) /\ NullishAt(2) /\ Invoked(steps[2].call)
    /\ steps[4].value = steps[2].value
    /\ Len(calls) = 1

\* The user functions of the stages up to step i, applied left to right to
\* the first value, each with the extra arguments of its stage.
RECURSIVE Composition(_)
Composition(i) ==
    IF steps[i].parent = 0 THEN Return(steps[i].value)
    ELSE LET prev == Composition(steps[i].parent)
         IN  IF prev.kind = "throw" THEN prev
             ELSE Apply(steps[i].callback, <<prev.val>> \o steps[i].rest)

\* Every step on the way from the first value to step i, step i excluded,
\* has a value that is not nullish.
NoNullishBefore(i) == \A a \in Ancestors(i) : NotNullishAt(a)

\* Step i and the steps before it were all made with the constant mock.
RECURSIVE AllConstant(_)
AllConstant(i) ==
    \/ steps[i].parent = 0
    \/ /\ Counterpart(steps[i].callback) = "cbMultiple"
       /\ AllConstant(steps[i].parent)

\* C2: in a chain without a nullish intermediate value, the value of a step
\* is the composition of the user functions applied left to right to the
\* first value, each with the extra arguments of its own stage; a chain
\* made with a function that always returns mockReturn has the value
\* mockReturn at every step.
C2_Composition ==
    \A i \in 2..Len(steps) :
       /\ (NoNullishBefore(i) /\ steps[i].state = "fulfilled")
             => Composition(i) = Return(steps[i].value)
       /\ (/\ AllConstant(i)
           /\ NotNullishAt(1)
           /\ isNullish(mockReturn, steps[i].markers) = Return(Bool(FALSE))
           /\ steps[i].pc = "done")
             => steps[i].state = "fulfilled" /\ steps[i].value = mockReturn

\* The sync lookup chain of a known user: id -> user -> preference -> item
\* id, then a function whose result depends on its extra arguments.
C2_Witness ==
    /\ IsChain("sync")
    /\ Len(steps) = 4
    /\ steps[1].value = Str("firstUser")
    /\ steps[3].value = Str("cycling")
    /\ steps[4].callback = "falseOnNullish"
    /\ steps[4].rest = <<Num(-1), Null>>
    /\ steps[4].value = Bool(TRUE)
    /\ Len(calls) = 3

\* The match of one marker as the description of isNullish states it: a
\* scalar marker is strictly equal to the value, a composite marker has the
\* same serialized form as the value.
StatedMatch(m, v) ==
    IF IsObject(m)
    THEN /\ JSONStringify(m).kind = "return"
         /\ JSONStringify(v).kind = "return"
         /\ JSONStringify(m).val = JSONStringify(v).val
    ELSE m = v

\* v is an object with the properties of m and more / with the properties of
\* m in another order; v is an array with fewer elements than m.
EntrySet(v) == {v.e[i] : i \in 1..Len(v.e)}
HasExtraField(m, v) ==
    /\ m.t = "object" /\ v.t = "object"
    /\ EntrySet(m) \subseteq EntrySet(v)
    /\ Len(v.e) > Len(m.e)
IsReordered(m, v) ==
    /\ m.t = "object" /\ v.t = "object"
    /\ EntrySet(m) = EntrySet(v)
    /\ m.e # v.e
HasFewerElements(m, v) ==
    /\ m.t = "array" /\ v.t = "array"
    /\ Len(v.e) < Len(m.e)

\* C3: isNullish(v, M) is true if and only if some marker of M matches v,
\* a scalar marker by strict equality and a composite marker by equality of
\* the serialized forms; a value with the fields of a composite marker in
\* another order, with an extra field, or with fewer elements is not matched
\* by that marker.
C3_MatchesIffSomeMarker ==
    outcome.kind # "none" =>
       /\ (outcome = Return(Bool(TRUE)))
             <=> (\E i \in 1..Len(nullishTypes) :
                     StatedMatch(nullishTypes[i], argument))
       /\ \A i \in 1..Len(nullishTypes) :
             (\/ HasExtraField(nullishTypes[i], argument)
              \/ IsReordered(nullishTypes[i], argument)
              \/ HasFewerElements(nullishTypes[i], argument))
                => MarkerMatches(nullishTypes[i], argument) # Return(Bool(TRUE))

\* The argument list a continuation call on step p gives to its function.
ArgsOf(p, rest) == <<steps[p].value>> \o rest

\* C4: one call of bind or bindAsync invokes the user function exactly once
\* when isNullish is false of its (resolved) first argument, and its result
\* is then the result of the function; it invokes it zero times when
\* isNullish is true, and its result is then the first argument itself.  No
\* continuation call invokes its function twice, and none before its first
\* argument has resolved.
C4_SingleCall ==
    /\ \A n \in 1..CallsMade : InvocationsOf(n) <= 1
    /\ \A i \in 2..Len(steps) :
          LET p == steps[i].parent
              n == steps[i].call
          IN  /\ steps[i].pc = "await" => InvocationsOf(n) = 0
              /\ (steps[i].pc # "await" /\ NotNullishAt(p)) =>
                    /\ InvocationsOf(n) = 1
                    /\ steps[i].state = "fulfilled" =>
                          Apply(steps[i].callback, ArgsOf(p, steps[i].rest))
                             = Return(steps[i].value)
              /\ (steps[i].pc # "await" /\ NullishAt(p)) =>
                    /\ InvocationsOf(n) = 0
                    /\ steps[i].state = "fulfilled"
                    /\ steps[i].value = steps[p].value
    /\ \A t \in 1..Len(thrown) :
          NotNullishAt(thrown[t].parent) =>
             /\ InvocationsOf(thrown[t].call) = 1
             /\ Apply(thrown[t].callback, ArgsOf(thrown[t].parent, thrown[t].rest))
                   = Throw(thrown[t].error)

\* bindAsync got a promise as first argument both times: the first call
\* found the resolved value not nullish and invoked its function once, the
\* second found the function's result nullish and returned it unchanged.
C4_Witness ==
    /\ IsChain("async")
    /\ Len(steps) = 3
    /\ steps[1].held = "promise"
    /\ NotNullishAt(1)
    /\ InvocationsOf(steps[2].call) = 1
    /\ NullishAt(2)
    /\ steps[3].pc = "done"
    /\ InvocationsOf(steps[3].call) = 0
    /\ steps[3].value = steps[2].value

\* C5: a user function that is invoked receives exactly the current value
\* followed by the extra arguments of the continuation call that invoked
\* it, in their order.
C5_ArgumentList ==
    \A j \in 1..Len(calls) :
       \/ \E i \in 2..Len(steps) :
             /\ steps[i].call = calls[j].call
             /\ steps[steps[i].parent].state = "fulfilled"
             /\ calls[j].fn = steps[i].callback
             /\ calls[j].args = ArgsOf(steps[i].parent, steps[i].rest)
       \/ \E t \in 1..Len(thrown) :
             /\ thrown[t].call = calls[j].call
             /\ calls[j].fn = thrown[t].callback
             /\ calls[j].args = ArgsOf(thrown[t].parent, thrown[t].rest)

\* An async chain whose first two stages had extra arguments of their own:
\* falseOnNullish got (first value, -1, null), the mock got (true, 0,
\* undefined).
C5_Witness ==
    /\ IsChain("async")
    /\ Len(calls) = 2
    /\ calls[1].fn = "falseOnNullish"
    /\ calls[1].args = <<steps[1].value, Num(-1), Null>>
    /\ calls[2].fn = "cbMultipleAsync"
    /\ calls[2].args = <<Bool(TRUE), Num(0), Undefined>>

\* The first value of the chain, also when it was handed over as a promise.
FirstValue == IF steps[1].q.state = "none" THEN steps[1].value ELSE steps[1].q.val

\* The sync chain made with the same first value, markers, and the sync
\* counterparts of the functions of the stages up to step i.
RECURSIVE SyncRun(_)
SyncRun(i) ==
    IF steps[i].parent = 0 THEN BindResult("return", FirstValue, FALSE, <<>>)
    ELSE LET prev == SyncRun(steps[i].parent)
         IN  IF prev.kind = "throw"
             THEN BindResult("throw", prev.val, FALSE, <<>>)
             ELSE bind(Counterpart(steps[i].callback), steps[i].markers,
                       prev.val, steps[i].rest)

\* C6: async/sync equivalence.  A settled step of an async chain (whose
\* first value did not reject) has the value of the same step of the sync
\* chain made with the sync counterparts, fails where and as the sync
\* continuation call throws, and its function was invoked if and only if
\* the sync chain invokes the function of that stage.
C6_AsyncSyncEquivalence ==
    (IsChain("async") /\ steps[1].q.kind = "return") =>
       \A i \in 2..Len(steps) :
          steps[i].pc = "done" =>
             /\ steps[i].state = "fulfilled" =>
                   SyncRun(i).kind = "return" /\ SyncRun(i).val = steps[i].value
             /\ steps[i].state = "rejected" =>
                   SyncRun(i).kind = "throw" /\ SyncRun(i).val = steps[i].value
             /\ Invoked(steps[i].call) <=> SyncRun(i).invoked

\* The async lookup chain id -> user -> preference, then one more stage, all
\* settled.
C6_Witness ==
    /\ IsChain("async")
    /\ Len(steps) = 4
    /\ \A i \in 1..4 : steps[i].pc = "done" /\ steps[i].state # "pending"
    /\ steps[2].callback = "getUserAsync"
    /\ steps[3].callback = "getUserPreferenceAsync"
    /\ steps[3].value = Str("cycling")
    /\ Len(calls) = 3

\* C7: a continuation call of the async chain never waits.  As long as
\* calls are made at all, the continuation of every async step can be called
\* and returns its new step at once, with any function and extra arguments,
\* whether the value of that step or of an earlier one is pending or not.
C7_NeverWaits ==
    \A p \in 1..Len(steps) :
       (steps[p].kind = "async" /\ CallsMade < MaxCalls) =>
          \A f \in AsyncChainFunctions : \A r \in RestsOf(f) :
             ENABLED PipeAsync(p, f, r)

\* The whole chain is built and not one of its values has settled: the
\* first value is pending still, and so is every step.
C7_Witness ==
    /\ IsChain("async")
    /\ CallsMade = MaxCalls
    /\ Len(steps) = MaxCalls + 1
    /\ \A i \in 1..Len(steps) : steps[i].state = "pending"
    /\ \A i \in 2..Len(steps) : steps[i].pc = "await"
    /\ calls = <<>>

\* The step an action has just added has its function invoked already.
NewStepInvoked(i) == \E j \in 1..Len(calls') : calls'[j].call = steps'[i].call

\* C8 as claimed: when a continuation call of pipeAsync returns its step,
\* the function passed to it has not been invoked, at any stage.
C8_NeverOnBuildStack ==
    [][\A i \in 1..Len(steps') :
          (i > Len(steps) /\ i > 1 /\ steps'[i].kind = "async")
             => ~NewStepInvoked(i)]_vars

\* C8 as amended: when a continuation call of pipeAsync returns its step,
\* the function passed to it has been invoked if and only if the builder
\* held an immediate value that is not nullish; on a builder that holds a
\* promise (every stage after the first, and the first stage of a chain
\* started with a promise) the function has not been invoked.
C8_ScheduledWhenPromiseHeld ==
    [][\A i \in 1..Len(steps') :
          (i > Len(steps) /\ i > 1 /\ steps'[i].kind = "async") =>
             (NewStepInvoked(i) <=>
                 /\ steps[steps'[i].parent].held = "value"
                 /\ NotNullishAt(steps'[i].parent))]_vars

\* The function of the first stage ran during the continuation call on the
\* immediate first value (its promise is pending), and the second stage,
\* built on that promise, has not invoked its function.
C8_Witness ==
    /\ IsChain("async")
    /\ Len(steps) = 3
    /\ steps[1].held = "value"
    /\ Invoked(steps[2].call)
    /\ steps[2].pc = "adopt" /\ steps[2].q.state = "pending"
    /\ steps[3].pc = "await"
    /\ ~Invoked(steps[3].call)

\* C9: in an async chain the function of a stage is invoked only once the
\* value of the stage before it has settled (its bindAsync call is through
\* and the promise its function returned has settled); the invocations are
\* logged in chain order, and at no time have two stages a function whose
\* returned promise is pending.
C9_ChainOrder ==
    IsChain("async") =>
       /\ \A i \in 2..Len(steps) :
             Invoked(steps[i].call) =>
                LET p == steps[i].parent
                IN  /\ steps[p].state = "fulfilled"
                    /\ steps[p].pc = "done"
                    /\ steps[p].q.state # "pending"
       /\ \A j, k \in 1..Len(calls) : j < k => calls[j].call < calls[k].call
       /\ Cardinality({i \in 2..Len(steps) : steps[i].q.state = "pending"}) <= 1

\* All stages were chained; the first stage's async function has settled,
\* the second stage's async function is running, the third waits.
C9_Witness ==
    /\ IsChain("async")
    /\ Len(steps) = 4
    /\ steps[2].callback \in AsyncFunctions /\ steps[2].pc = "done"
    /\ steps[3].callback \in AsyncFunctions /\ steps[3].q.state = "pending"
    /\ steps[4].pc = "await"
    /\ Len(calls) = 2

\* C10: a failure of a user function is not caught.  In a sync chain it
\* leaves the continuation call as it was thrown and the call produces no
\* step; in an async chain no continuation call throws, the step of a call
\* whose function fails exists, and its value is never fulfilled but
\* rejects with that failure.
C10_FailurePropagates ==
    /\ \A t \in 1..Len(thrown) :
          /\ IsChain("sync")
          /\ \A i \in 1..Len(steps) : steps[i].call # thrown[t].call
          /\ Invoked(thrown[t].call) =>
                Apply(thrown[t].callback, ArgsOf(thrown[t].parent, thrown[t].rest))
                   = Throw(thrown[t].error)
    /\ \A i \in 2..Len(steps) :
          LET r == Apply(steps[i].callback, ArgsOf(steps[i].parent, steps[i].rest))
          IN  (Invoked(steps[i].call) /\ r.kind = "throw") =>
                 /\ steps[i].kind = "async"
                 /\ steps[i].state # "fulfilled"
                 /\ steps[i].pc = "done" =>
                       steps[i].state = "rejected" /\ steps[i].value = r.val
    /\ IsChain("async") => thrown = <<>>

\* A sync function threw during the continuation call on an immediate
\* first value of an async chain: the call returned a step whose value is
\* rejected with the TypeError.
C10_Witness ==
    /\ IsChain("async")
    /\ steps[1].held = "value"
    /\ Len(steps) >= 2
    /\ steps[2].callback = "getUserPreference"
    /\ Invoked(steps[2].call)
    /\ steps[2].state = "rejected"
    /\ steps[2].value = Err("TypeError: Cannot read properties of null")
    /\ thrown = <<>>

\* The same failure in a sync chain: it left the continuation call.
C10_WitnessSync ==
    /\ IsChain("sync")
    /\ Len(steps) = 1
    /\ Len(thrown) = 1
    /\ thrown[1].error = Err("TypeError: Cannot read properties of null")

\* C11: every step of an async chain has a promise as value, and a promise
\* never settles to a promise.  The value of the initial step is resolved
\* with the first value (at once when the first value is immediate); the
\* value of a step whose function was invoked stays pending while the
\* promise the function returned is taken over, and is resolved with the
\* final result of the function, whether the function returned it directly
\* or through a promise.
C11_ValueFlattened ==
    \A i \in 1..Len(steps) :
       steps[i].kind = "async" =>
          /\ steps[i].state \in {"pending", "fulfilled", "rejected"}
          /\ steps[i].state = "fulfilled" => steps[i].value.t # "promise"
          /\ steps[i].pc = "adopt" => steps[i].state = "pending"
          /\ steps[i].parent = 0 =>
                /\ steps[i].held = "value" => steps[i].state = "fulfilled"
                /\ (steps[i].held = "promise" /\ steps[i].state = "fulfilled")
                      => steps[i].value = steps[i].q.val
          /\ (steps[i].parent # 0 /\ Invoked(steps[i].call)
                 /\ steps[i].pc = "done") =>
                LET r == Apply(steps[i].callback,
                               ArgsOf(steps[i].parent, steps[i].rest))
                IN  r.kind = "return" =>
                       steps[i].state = "fulfilled" /\ steps[i].value = r.val

\* An async chain on an immediate first value: a sync function returned an
\* immediate value at the first stage, an async function a promise at the
\* second, and both steps are resolved with the plain results.
C11_Witness ==
    /\ IsChain("async")
    /\ Len(steps) >= 3
    /\ steps[1].held = "value" /\ steps[1].state = "fulfilled"
    /\ steps[2].callback = "falseOnNullish"
    /\ steps[2].state = "fulfilled" /\ steps[2].value = Bool(TRUE)
    /\ steps[3].callback = "cbMultipleAsync"
    /\ steps[3].pc = "done" /\ steps[3].q.state = "settled"
    /\ steps[3].state = "fulfilled" /\ steps[3].value = mockReturn

\* The marker list a wrapper call is to use: monadRun and monadAsyncRun
\* [undefined], a closure of monadSetup / monadAsyncSetup the list it got.
IsRun(w) == w.wrapper \in {"monadRun", "monadAsyncRun"}
IsSyncWrapper(w) == w.wrapper \in {"monadRun", "monadSetup"}
MarkersOf(w) == IF IsRun(w) THEN <<Undefined>> ELSE nullishTypes

\* What monad(v, ...M).pipe(fn, ...rest) comes to for the wrapper call w.
Unwrapped(w) == bind(Counterpart(w.callback), MarkersOf(w), w.first, w.rest)

\* The steps that the continuation call of the wrapper call w returned.
MadeBy(w) == {i \in 1..Len(steps) : steps[i].call = w.call}

\* C12: the wrappers add nothing.  A call of monadRun / monadAsyncRun makes
\* an initial step with the marker list [undefined], a call of a closure of
\* monadSetup / monadAsyncSetup one with the list given at setup, and the
\* step it returns has the value of monad(v, ...M).pipe(fn, ...rest) (a sync
\* call throws what that throws, an async step settles as it does), with
\* the same invocation of fn.  So with M = [-1, null] a first argument -1 or
\* null comes back without an invocation and undefined is passed to fn;
\* with monadRun undefined alone comes back without an invocation.
C12_WrappersAddNothing ==
    \A k \in 1..Len(wrapped) :
       LET w == wrapped[k]
           ref == Unwrapped(w)
       IN  /\ steps[w.root].parent = 0
           /\ steps[w.root].markers = MarkersOf(w)
           /\ IsSyncWrapper(w) =>
                 /\ steps[w.root] = monad(w.first, MarkersOf(w))
                 /\ IF ref.kind = "throw"
                    THEN /\ MadeBy(w) = {}
                         /\ \E t \in 1..Len(thrown) :
                               /\ thrown[t].call = w.call
                               /\ thrown[t].error = ref.val
                    ELSE /\ Cardinality(MadeBy(w)) = 1
                         /\ \A i \in MadeBy(w) :
                               /\ steps[i].parent = w.root
                               /\ steps[i].value = ref.val
                 /\ InvocationsOf(w.call) = IF ref.invoked THEN 1 ELSE 0
           /\ ~IsSyncWrapper(w) =>
                 /\ Cardinality(MadeBy(w)) = 1
                 /\ \A i \in MadeBy(w) :
                       /\ steps[i].parent = w.root
                       /\ (steps[i].pc = "done" /\ ref.kind = "return") =>
                             steps[i].state = "fulfilled"
                             /\ steps[i].value = ref.val
                       /\ (steps[i].pc = "done" /\ ref.kind = "throw") =>
                             steps[i].state = "rejected"
                             /\ steps[i].value = ref.val
                       /\ steps[i].pc # "await" =>
                             InvocationsOf(w.call) = IF ref.invoked THEN 1 ELSE 0
           /\ \A j \in 1..Len(calls) :
                 calls[j].call = w.call =>
                    calls[j].fn = w.callback /\ calls[j].args = <<w.first>> \o w.rest
           /\ (w.mode = "value" /\ MarkersOf(w) = <<Num(-1), Null>>) =>
                 /\ w.first \in {Num(-1), Null} =>
                       /\ ~Invoked(w.call)
                       /\ \A i \in MadeBy(w) :
                             steps[i].state = "fulfilled" /\ steps[i].value = w.first
                 /\ w.first = Undefined => Invoked(w.call)
           /\ (w.mode = "value" /\ IsRun(w)) =>
                 (Invoked(w.call) <=> w.first # Undefined)

\* The monadSetup test: a closure set up with [-1, null] was called with -1,
\* which came back without an invocation, and with undefined, which was
\* passed to the function.
C12_Witness ==
    /\ nullishTypes = <<Num(-1), Null>>
    /\ Len(wrapped) = 2
    /\ wrapped[1].wrapper = "monadSetup"
    /\ wrapped[1].first = Num(-1)
    /\ ~Invoked(wrapped[1].call)
    /\ steps[2].value = Num(-1)
    /\ wrapped[2].wrapper = "monadSetup"
    /\ wrapped[2].first = Undefined
    /\ wrapped[2].rest = <<Undefined>>
    /\ Invoked(wrapped[2].call)
    /\ steps[4].value = Bool(FALSE)

\* monadAsyncRun with null, which is no marker of it: the function was
\* invoked with null during the call.
C12_WitnessAsyncRun ==
    /\ Len(wrapped) >= 1
    /\ wrapped[1].wrapper = "monadAsyncRun"
    /\ wrapped[1].first = Null
    /\ wrapped[1].callback = "falseOnNullish"
    /\ Invoked(wrapped[1].call)
    /\ steps[2].state = "fulfilled"

\* The initial step that step i descends from.
RECURSIVE RootOf(_)
RootOf(i) == IF steps[i].parent = 0 THEN i ELSE RootOf(steps[i].parent)

\* The wrapper calls that made the initial step r.
WrappersOf(r) == {k \in 1..Len(wrapped) : wrapped[k].root = r}

\* The bindAsync call (or bind call) that made step i is past its nullish
\* check: it is not waiting at the await, and the await did not throw.
PastCheck(i) ==
    /\ steps[i].parent # 0
    /\ steps[i].pc # "await"
    /\ steps[steps[i].parent].state = "fulfilled"

\* C13: the marker list is invariant along a chain.  The closure of every
\* step holds the marker list that its initial step was made with, which is
\* the list of the wrapper call that made the chain, and every nullish
\* check of a continuation call came out as isNullish with that list does:
\* the function was invoked if and only if isNullish is false of the value
\* of the step before with the markers of the initial step, and a call throws
\* only where isNullish is not true with those markers.
C13_MarkersInvariant ==
    /\ \A i \in 1..Len(steps) :
          /\ steps[i].markers = steps[RootOf(i)].markers
          /\ \A k \in WrappersOf(RootOf(i)) :
                steps[i].markers = MarkersOf(wrapped[k])
          /\ PastCheck(i) =>
                LET nullish == isNullish(steps[steps[i].parent].value,
                                         steps[RootOf(i)].markers)
                IN  /\ Invoked(steps[i].call) <=> nullish = Return(Bool(FALSE))
                    /\ nullish = Return(Bool(TRUE)) =>
                          steps[i].value = steps[steps[i].parent].value
    /\ \A t \in 1..Len(thrown) :
          isNullish(steps[thrown[t].parent].value,
                    steps[RootOf(thrown[t].parent)].markers) # Return(Bool(TRUE))

\* A chain from a closure set up with [-1, null]: the first function got
\* undefined (no marker of this chain) and returned a boolean, and the
\* continuation call on the step it made checked against the same list and
\* invoked its function.
C13_Witness ==
    /\ nullishTypes = <<Num(-1), Null>>
    /\ Len(wrapped) = 1
    /\ ~IsRun(wrapped[1])
    /\ wrapped[1].first = Undefined
    /\ Len(steps) = 3
    /\ steps[3].parent = 2
    /\ steps[3].markers = <<Num(-1), Null>>
    /\ Invoked(steps[2].call) /\ Invoked(steps[3].call)
    /\ PastCheck(3)

\* Two chains side by side, one from monadRun and one from a closure set up
\* with [-1, null], both started with null: monadRun invoked its function,
\* the closure did not.
C13_WitnessTwoChains ==
    /\ nullishTypes = <<Num(-1), Null>>
    /\ Len(wrapped) = 2
    /\ IsRun(wrapped[1]) /\ ~IsRun(wrapped[2])
    /\ wrapped[1].first = Null /\ wrapped[2].first = Null
    /\ Invoked(wrapped[1].call) /\ ~Invoked(wrapped[2].call)

\* How often isNullish was called on the value of step p, and how many
\* continuation calls on step p have taken its value as their input (a sync
\* call at once, also when it then threw; an async call once its await of
\* the value went through).
ChecksOf(p) == Cardinality({j \in 1..Len(checks) : checks[j] = p})
InputsOf(p) ==
    Cardinality({i \in 1..Len(steps) : steps[i].parent = p /\ PastCheck(i)})
    + Cardinality({t \in 1..Len(thrown) : thrown[t].parent = p})
ContinuationsOf(p) ==
    Cardinality({i \in 1..Len(steps) : steps[i].parent = p})
    + Cardinality({t \in 1..Len(thrown) : thrown[t].parent = p})

\* C14: a value is checked once, when it becomes the input of the next
\* stage.  isNullish is called on the value of a step exactly once for each
\* continuation call that takes that value as its input, and at no other
\* time: not by the stage that produced it, not before it is there, and not
\* by a stage further down the chain.  So a step that one continuation call
\* was made on has its value checked at most once, and exactly once as soon
\* as that call has taken the value.
C14_CheckedOnce ==
    /\ \A j \in 1..Len(checks) :
          /\ checks[j] \in 1..Len(steps)
          /\ steps[checks[j]].state = "fulfilled"
    /\ \A p \in 1..Len(steps) :
          /\ ChecksOf(p) = InputsOf(p)
          /\ ContinuationsOf(p) = 0 => ChecksOf(p) = 0
          /\ ContinuationsOf(p) = 1 => ChecksOf(p) <= 1

\* An async chain of three stages, all settled: the function of the first
\* stage returned a nullish value, which went through the two later stages,
\* and the value of each step but the last was checked once.
C14_Witness ==
    /\ IsChain("async")
    /\ Len(steps) = 4
    /\ \A i \in 1..4 : steps[i].pc = "done"
    /\ NotNullishAt(1) /\ NullishAt(2)
    /\ checks = <<1, 2, 3>>
    /\ ChecksOf(2) = 1 /\ ChecksOf(4) = 0

\* C15: isNullish is total.  A call of isNullish, whatever the value and the
\* marker list, returns a boolean and raises nothing, and a marker whose type
\* differs from the type of the value does not match it.
C15_IsNullishTotal ==
    outcome.kind # "none" =>
       /\ outcome.kind = "return"
       /\ outcome.val.t = "boolean"
       /\ \A i \in 1..Len(nullishTypes) :
             nullishTypes[i].t # argument.t =>
                MarkerMatches(nullishTypes[i], argument) = Return(Bool(FALSE))

\* The continuation call that an action has just made on an async step: the
\* new step it returned.
NewAsyncSteps ==
    {i \in 1..Len(steps') :
        i > Len(steps) /\ steps'[i].kind = "async" /\ steps'[i].parent # 0}

\* The invocations an action has just logged.
NewCalls == {j \in 1..Len(calls') : j > Len(calls)}

\* C16: when the builder holds an immediate value that is not nullish, the
\* continuation call invokes the function with that value and the extra
\* arguments before it returns; when it holds a promise, the function is not
\* invoked before the call returns, and every invocation after the return
\* of the call is of a step whose builder held a promise, made when that
\* promise is fulfilled.
C16_SyncOnImmediate ==
    [][/\ \A i \in NewAsyncSteps :
             LET p == steps'[i].parent
                 prev == steps'[p]
             IN  /\ (prev.held = "value"
                       /\ isNullish(prev.value, prev.markers) = Return(Bool(FALSE)))
                       => \E j \in NewCalls :
                             /\ calls'[j].call = steps'[i].call
                             /\ calls'[j].fn = steps'[i].callback
                             /\ calls'[j].args = <<prev.value>> \o steps'[i].rest
                 /\ prev.held = "promise" =>
                       /\ ~NewStepInvoked(i)
                       /\ steps'[i].pc = "await"
       /\ \A j \in NewCalls : \A i \in 1..Len(steps) :
             (steps[i].kind = "async" /\ steps[i].call = calls'[j].call) =>
                LET p == steps[i].parent
                IN  /\ steps[i].pc = "await"
                    /\ steps[p].held = "promise"
                    /\ steps[p].state = "fulfilled"
                    /\ calls'[j].args = <<steps[p].value>> \o steps[i].rest]_vars

\* The test of the extra arguments: the continuation call on an immediate
\* first value invoked the mock with (value, 0, undefined)
\* during the call; the second stage, whose builder holds the promise of the
\* first, invoked its function later, once that promise was fulfilled.
C16_Witness ==
    /\ IsChain("async")
    /\ Len(steps) = 3
    /\ steps[1].held = "value"
    /\ Len(calls) = 2
    /\ calls[1].fn = "cbMultipleAsync"
    /\ calls[1].args = <<steps[1].value>> \o mockRest
    /\ steps[2].state = "fulfilled"
    /\ calls[2].call = steps[3].call
    /\ calls[2].args[1] = mockReturn

\* C17: once the value of a stage of an async chain has failed, the value
\* of no later stage is ever fulfilled: each later stage, once its
\* bindAsync call is through, has failed with the same failure; no function
\* of a later stage is invoked, and no function of any stage is invoked
\* twice.
C17_FailureStops ==
    /\ \A i \in 1..Len(steps) : \A a \in Ancestors(i) :
          (steps[a].kind = "async" /\ steps[a].state = "rejected") =>
             /\ ~Invoked(steps[i].call)
             /\ steps[i].pc \in {"await", "done"}
             /\ steps[i].state # "fulfilled"
             /\ steps[i].pc = "done" =>
                   steps[i].state = "rejected" /\ steps[i].value = steps[a].value
    /\ \A j, k \in 1..Len(calls) : calls[j].call = calls[k].call => j = k

\* The promise that the function of the first stage returned was rejected
\* (the lookup threw on a null user); the two later stages have failed with
\* the same TypeError, and one function was invoked in all.
C17_Witness ==
    /\ IsChain("async")
    /\ Len(steps) = 4
    /\ steps[2].callback = "getUserPreferenceAsync"
    /\ steps[2].q.state = "settled" /\ steps[2].q.kind = "throw"
    /\ \A i \in 2..4 :
          /\ steps[i].pc = "done"
          /\ steps[i].state = "rejected"
          /\ steps[i].value = steps[2].q.val
    /\ Len(calls) = 1

\* The promise given as first value was rejected: every stage has failed
\* with its reason and no function was invoked.
C17_WitnessFirst ==
    /\ IsChain("async")
    /\ Len(steps) = 4
    /\ steps[1].state = "rejected"
    /\ \A i \in 2..4 : steps[i].state = "rejected" /\ steps[i].value = steps[1].value
    /\ calls = <<>>

\* An action is a continuation call (one that a wrapper makes included).
ContinuationCall == CallsMade' = CallsMade + 1

\* The steps that an action has just added for the continuation call it is.
NewSteps ==
    {i \in 1..Len(steps') : i > Len(steps) /\ steps'[i].call = CallsMade'}

\* No existing step is changed by a continuation call, and at any time a
\* step changes only in that the promise that is its value settles: a value
\* that is there, or a failure, stays.
StepsKept ==
    /\ Len(steps') >= Len(steps)
    /\ ContinuationCall => \A i \in 1..Len(steps) : steps'[i] = steps[i]
    /\ \A i \in 1..Len(steps) :
          /\ steps'[i].parent = steps[i].parent
          /\ steps'[i].markers = steps[i].markers
          /\ steps[i].state # "pending" =>
                steps'[i].state = steps[i].state /\ steps'[i].value = steps[i].value

\* The value of a step is what bind computes from the value of the step it
\* was called on, as that value is now.
FromParent(i) ==
    LET p == steps[i].parent
        b == bind(Counterpart(steps[i].callback), steps[i].markers,
                  steps[p].value, steps[i].rest)
    IN  /\ steps[i].kind = "sync" => b.kind = "return" /\ steps[i].value = b.val
        /\ (steps[i].kind = "async" /\ steps[i].pc = "done"
              /\ steps[p].state = "fulfilled") =>
              /\ steps[i].state = (IF b.kind = "throw" THEN "rejected"
                                   ELSE "fulfilled")
              /\ steps[i].value = b.val

\* C18 as claimed: every continuation call, whatever its outcome, creates a
\* new step and changes no existing step.
C18_AlwaysNewStep ==
    [][ContinuationCall =>
          /\ NewSteps # {}
          /\ \A i \in 1..Len(steps) : steps'[i] = steps[i]]_vars

\* C18 as amended: a continuation call changes no existing step, whatever
\* its outcome, and it creates one new step when it returns, which a call
\* in an async chain always does and a call in a sync chain does unless the
\* function or the nullish check throws; then the exception leaves the call
\* and there is no new step.  The value of every step, of each of several
\* branches from one step too, is the one computed from the value of the
\* step it was called on, and the value or the failure of a step stays as
\* it is whatever happens in another branch or chain.
C18_FreshStepOrThrow ==
    /\ [](\A i \in 1..Len(steps) : steps[i].parent # 0 => FromParent(i))
    /\ [][/\ StepsKept
          /\ ContinuationCall =>
                /\ Cardinality(NewSteps) <= 1
                /\ NewSteps = {} <=> Len(thrown') = Len(thrown) + 1
                /\ Len(thrown') > Len(thrown) =>
                      /\ steps'[thrown'[Len(thrown')].parent].kind = "sync"
                      /\ thrown'[Len(thrown')].call = CallsMade'
                /\ \A i \in NewSteps :
                      steps'[i].markers = steps'[steps'[i].parent].markers]_vars

\* Two branches from one initial step of an async chain: the function of
\* one threw and its step has failed, the function of the other returned
\* and its step has that result; the initial step is as it was made.
C18_Witness ==
    \E i, j \in 1..Len(steps) :
       /\ i # j
       /\ steps[i].kind = "async"
       /\ steps[i].parent = 1 /\ steps[j].parent = 1
       /\ steps[i].callback # steps[j].callback
       /\ Invoked(steps[i].call) /\ Invoked(steps[j].call)
       /\ steps[i].state = "rejected"
       /\ steps[j].state = "fulfilled"
       /\ steps[1].state = "fulfilled" /\ steps[1].value = Undefined

\* The same in a sync chain: the first call on the initial step threw and
\* made no step, the second call on it returned one.
C18_WitnessSync ==
    /\ Len(steps) = 2
    /\ steps[1].kind = "sync" /\ steps[1].value = Null
    /\ steps[2].parent = 1 /\ steps[2].value = Bool(TRUE)
    /\ Len(thrown) = 1
    /\ thrown[1].parent = 1
    /\ thrown[1].call < steps[2].call

\* Something that step i waits for is still to happen at step a: a promise
\* of user code is pending there, or its bindAsync call has a job to run.
Outstanding(a) ==
    \/ steps[a].q.state = "pending"
    \/ steps[a].pc = "adopt"
    \/ steps[a].pc = "await" /\ steps[steps[a].parent].state # "pending"

\* C19: liveness of the async chain.  When every pending promise of user
\* code settles in the end and the event loop runs its jobs, the value of
\* every step that was made settles in the end, to a value or a failure;
\* and a value is pending only as long as, at its own or at an earlier
\* stage, a promise of user code is pending or a job is yet to run: nothing
\* else (no timeout, no abort) ends or holds a pending value.
C19_EverySettles ==
    /\ \A i \in 1..(MaxCalls + 1) :
          (Len(steps) >= i) ~> (Len(steps) >= i /\ steps[i].state # "pending")
    /\ [](\A i \in 1..Len(steps) :
             steps[i].state = "pending" =>
                \E a \in Ancestors(i) \cup {i} : Outstanding(a))

\* A chain on a promise as first value, with an async function at every one
\* of its stages, has settled from its first to its last step.
C19_Witness ==
    /\ IsChain("async")
    /\ Len(steps) = MaxCalls + 1
    /\ steps[1].held = "promise" /\ steps[1].q.state = "settled"
    /\ \A i \in 2..Len(steps) :
          /\ steps[i].callback \in AsyncFunctions
          /\ steps[i].pc = "done"
          /\ steps[i].state # "pending"
    /\ Len(calls) >= 2

=============================================================================
